---- MODULE Spec2Model ----
(***************************************************************************)
(* Model of scripts/markitdown_converter.py: the probe                      *)
(* check_markitdown_installed, the two conversion entry points convert_file *)
(* and convert_bytes, and the command-line entry point main.                *)
(*                                                                          *)
(* The markitdown library, the file system and argparse are the             *)
(* environment.  Their behaviour during one run is fixed by the record env, *)
(* drawn in Init from every combination of outcomes the calls can have.     *)
(***************************************************************************)
EXTENDS Integers, Sequences, FiniteSets, TLC

VARIABLES
    entry,      \* the entry point this run exercises: "main", "convert_file", "convert_bytes"
    args,       \* argparse namespace of main
    env,        \* outcomes of the library and file-system calls in this run
    call,       \* arguments and locals of the conversion call in progress
    pc,         \* position in main or in the conversion call
    stdout,     \* what was printed on stdout, in order
    stderr,     \* what was printed on stderr, in order
    exit_code,  \* process exit status, meaningful once pc = "exited"
    outfiles,   \* files written through --output: set of [path, data]
    tempdir,    \* files in the temp directory: set of [id, suffix, data]
    temp_path,  \* local temp_path of convert_bytes: {} while unassigned, else {file}
    pending,    \* convert_bytes: the return value or exception in flight
    returns,    \* log of the completed conversion calls
    trace       \* log of the steps main has taken

vars == <<entry, args, env, call, pc, stdout, stderr, exit_code, outfiles,
          tempdir, temp_path, pending, returns, trace>>

----------------------------------------------------------------------------
(* Bounds and value sets *)

MaxExtLen == 2

ExtChars == {".", "p"}

\* Python's None
None == "<None>"

RECURSIVE SeqsUpTo(_, _)
SeqsUpTo(S, n) ==
    IF n = 0 THEN {<<>>}
    ELSE LET shorter == SeqsUpTo(S, n - 1)
         IN  shorter \cup {Append(s, c) : s \in shorter, c \in S}

\* the file_extension arguments tried
Exts == SeqsUpTo(ExtChars, MaxExtLen)

RECURSIVE Join(_)
Join(s) == IF s = <<>> THEN "" ELSE s[1] \o Join(Tail(s))

\* the byte buffers tried
Contents == {"", "%PDF-1.7"}

\* text_content values the converter may hand back
Texts == {"# Title", "", None}

\* file paths tried, as pathlib splits them; the first is the empty string
NoParts == [parent |-> "", stem |-> "", suffix |-> <<>>]
FilePaths ==
    { NoParts,
      [parent |-> "docs/", stem |-> "a", suffix |-> <<".", "P">>],
      [parent |-> "", stem |-> "notes", suffix |-> <<>>] }

PathStr(p) == p.parent \o p.stem \o Join(p.suffix)

\* values of --output tried; None when the flag is absent
Outputs == {None, "", "out.md"}

\* suffixes the converter may or may not support
Suffixes == {".p", ".P"}

\* Python truthiness of an optional string
Truthy(s) == s # None /\ s # ""

\* str(x) as print applies it to an optional string
Str(s) == IF s = None THEN "None" ELSE s

----------------------------------------------------------------------------
(* The environment *)

Envs ==
    [ load      : {"ok", "ImportError", "OtherError"},  \* import markitdown
      exists    : BOOLEAN,                              \* os.path.exists of a non-empty path
      ctor      : {"ok", "raise", "raise_with_plugins"},\* MarkItDown(enable_plugins=...)
      supported : SUBSET Suffixes,                      \* md.convert raises on the others
      text      : Texts,                                \* result.text_content
      tmp       : {"ok", "raise"},                      \* NamedTemporaryFile(...)
      write     : {"ok", "raise"},                      \* f.write(content)
      unlink    : {"ok", "raise"},                      \* os.unlink(temp_path)
      open      : {"ok", "raise"} ]                     \* open(args.output, "w")

Exists(p, e) == PathStr(p) # "" /\ e.exists

CtorRaises(enable_plugins, e) ==
    \/ e.ctor = "raise"
    \/ e.ctor = "raise_with_plugins" /\ enable_plugins

ConvertRaises(suffix, e) == suffix \notin e.supported

CtorError == "plugin failed to load"
\* str(e) of the exception md.convert raises: it names the file it was given
ConvertError(path) == "Could not convert '" \o path \o "' to Markdown"
TmpError == "[Errno 13] Permission denied"
WriteError == "[Errno 28] No space left on device"
UnlinkError == "[Errno 13] Permission denied: temp file"

----------------------------------------------------------------------------
(* Outcomes of a call: a returned value or an exception leaving the call *)

Returned(v) == [kind |-> "return", value |-> v]
Raised(exc) == [kind |-> "raise", value |-> [exception |-> exc]]

\* the exception `import markitdown` raises when it does not load
LoadError(e) == IF e.load = "ImportError" THEN "ImportError" ELSE "ValueError"

\* a probe that reports the dependency present whatever the import does
check_always_installed(e) == "True"

\* check_markitdown_installed(): "True", "False", or "raise" when the import
\* raises something `except ImportError` does not catch
check_markitdown_installed(e) ==
    CASE e.load = "ok"          -> "True"
      [] e.load = "ImportError" -> "False"
      [] OTHER                  -> "raise"

LowerChar(c) == IF c = "P" THEN "p" ELSE c

Lower(s) == [i \in 1..Len(s) |-> LowerChar(s[i])]

\* the two result records of convert_file
FileFailure(file_path, message) ==
    [ success   |-> FALSE,
      error     |-> message,
      markdown  |-> None,
      file_path |-> PathStr(file_path) ]

FileSuccess(file_path, text_content) ==
    [ success        |-> TRUE,
      error          |-> None,
      markdown       |-> text_content,
      file_path      |-> PathStr(file_path),
      file_name      |-> file_path.stem \o Join(file_path.suffix),
      file_extension |-> Join(Lower(file_path.suffix)) ]

\* convert_file(file_path, enable_plugins) under environment e
convert_file(file_path, enable_plugins, e) ==
    IF e.load # "ok" THEN Raised(LoadError(e))
    ELSE IF ~Exists(file_path, e)
         THEN Returned(FileFailure(file_path, "File not found: " \o PathStr(file_path)))
    ELSE IF CtorRaises(enable_plugins, e)
         THEN Returned(FileFailure(file_path, CtorError))
    ELSE IF ConvertRaises(Join(file_path.suffix), e)
         THEN Returned(FileFailure(file_path, ConvertError(PathStr(file_path))))
    ELSE Returned(FileSuccess(file_path, e.text))

\* the two result records of convert_bytes
BytesFailure(file_extension, message) ==
    [ success        |-> FALSE,
      error          |-> message,
      markdown       |-> None,
      file_extension |-> Join(file_extension) ]

BytesSuccess(file_extension, text_content) ==
    [ success        |-> TRUE,
      error          |-> None,
      markdown       |-> text_content,
      file_extension |-> Join(file_extension) ]

StartsWithDot(ext) == Len(ext) > 0 /\ ext[1] = "."

\* normalization left out: the extension is used as given
NormalizeSkipped(ext) == ext

\* "Ensure extension starts with dot"
Normalize(ext) == IF ~StartsWithDot(ext) THEN <<".">> \o ext ELSE ext

----------------------------------------------------------------------------
(* Initial states: one run of main, or one caller of a conversion function *)

NoCall ==
    [ fn |-> "none", file_path |-> NoParts, content |-> "", ext_arg |-> <<>>,
      file_extension |-> <<>>, enable_plugins |-> FALSE, f |-> {},
      temp_before |-> {} ]

NoArgs ==
    [ check |-> FALSE, has_file_path |-> FALSE, file_path |-> NoParts,
      output |-> None, json |-> FALSE, enable_plugins |-> FALSE ]

\* the namespaces parse_args can produce; file_path is None when the
\* positional is absent (nargs="?")
ArgSets ==
    { a \in [ check : BOOLEAN, has_file_path : BOOLEAN, file_path : FilePaths,
              output : Outputs, json : BOOLEAN, enable_plugins : BOOLEAN ] :
        ~a.has_file_path => a.file_path = NoParts }

Quiet ==
    /\ stdout = <<>>
    /\ stderr = <<>>
    /\ exit_code = 0
    /\ outfiles = {}
    /\ tempdir = {}
    /\ temp_path = {}
    /\ pending = Returned([none |-> TRUE])
    /\ returns = <<>>
    /\ trace = <<>>

InitMain ==
    /\ entry = "main"
    /\ args \in ArgSets
    /\ env \in {e \in Envs : e.tmp = "ok" /\ e.write = "ok" /\ e.unlink = "ok"}
    /\ call = NoCall
    /\ pc = "m_check"
    /\ Quiet

InitConvertFile ==
    /\ entry = "convert_file"
    /\ args = NoArgs
    /\ env \in {e \in Envs : e.tmp = "ok" /\ e.write = "ok" /\ e.unlink = "ok"
                              /\ e.open = "ok"}
    /\ \E p \in FilePaths, plugins \in BOOLEAN :
          call = [NoCall EXCEPT !.fn = "convert_file", !.file_path = p,
                                !.enable_plugins = plugins]
    /\ pc = "cf_call"
    /\ Quiet

InitConvertBytes ==
    /\ entry = "convert_bytes"
    /\ args = NoArgs
    /\ env \in {e \in Envs : e.exists /\ e.open = "ok"}
    /\ \E content \in Contents, ext \in Exts, plugins \in BOOLEAN :
          call = [NoCall EXCEPT !.fn = "convert_bytes", !.content = content,
                                !.ext_arg = ext, !.file_extension = ext,
                                !.enable_plugins = plugins]
    /\ pc = "cb_enter"
    /\ Quiet

Init == InitMain \/ InitConvertFile \/ InitConvertBytes

----------------------------------------------------------------------------
(* Helpers of the actions *)

Text(s) == [kind |-> "text", text |-> s]
Json(obj) == [kind |-> "json", obj |-> obj]
Traceback(exc) == [kind |-> "traceback", text |-> exc]

\* one completed call, as the caller sees it
LogEntry(c, outcome, after) ==
    [ fn |-> c.fn, file_path |-> c.file_path, content |-> c.content,
      ext_arg |-> c.ext_arg, enable_plugins |-> c.enable_plugins,
      kind |-> outcome.kind, value |-> outcome.value,
      temp_before |-> c.temp_before, temp_after |-> after ]

\* sys.exit(code), or the interpreter ending with that status
Exit(code) ==
    /\ pc' = "exited"
    /\ exit_code' = code

\* an exception nobody catches: traceback on stderr, status 1
Uncaught(exc) ==
    /\ stderr' = Append(stderr, Traceback(exc))
    /\ Exit(1)

NotInstalled == "markitdown not installed. Run: pip install markitdown"

UsageMessage == "file_path is required for conversion (use --check to verify installation)"

\* parser.error as it would be if it ended the process with status 1
parser_error_status_one(message) ==
    /\ stderr' = Append(stderr, Text("error: " \o message))
    /\ Exit(1)

\* parser.error(message): usage and message on stderr, exit status 2
parser_error(message) ==
    /\ stderr' = Append(stderr, Text("error: " \o message))
    /\ Exit(2)

----------------------------------------------------------------------------
(* main *)

\* "if args.check:" with the probe, the print and the sys.exit in its branch
main_check ==
    /\ pc = "m_check"
    /\ IF args.check
       THEN LET installed == check_markitdown_installed(env) IN
            CASE installed = "True" ->
                   /\ trace' = trace \o <<"check", "probe_true">>
                   /\ stdout' = Append(stdout, Json([installed |-> TRUE]))
                   /\ Exit(0)
                   /\ UNCHANGED stderr
              [] installed = "False" ->
                   /\ trace' = trace \o <<"check", "probe_false">>
                   /\ stdout' = Append(stdout,
                          Json([installed |-> FALSE, error |-> NotInstalled]))
                   /\ Exit(1)
                   /\ UNCHANGED stderr
              [] OTHER ->
                   /\ trace' = trace \o <<"check", "probe_raised">>
                   /\ Uncaught(LoadError(env))
                   /\ UNCHANGED stdout
       ELSE /\ trace' = Append(trace, "no_check")
            /\ pc' = "m_usage"
            /\ UNCHANGED <<stdout, stderr, exit_code>>
    /\ UNCHANGED <<entry, args, env, call, outfiles, tempdir, temp_path,
                   pending, returns>>

\* "if not args.file_path: parser.error(...)"
main_usage ==
    /\ pc = "m_usage"
    /\ IF ~(args.has_file_path /\ PathStr(args.file_path) # "")
       THEN /\ trace' = Append(trace, "usage_error")
            /\ parser_error(UsageMessage)
       ELSE /\ trace' = Append(trace, "file_path_given")
            /\ pc' = "m_probe"
            /\ UNCHANGED <<stderr, exit_code>>
    /\ UNCHANGED <<entry, args, env, call, stdout, outfiles, tempdir,
                   temp_path, pending, returns>>

\* "if not check_markitdown_installed():" with its report and sys.exit(1)
main_probe ==
    /\ pc = "m_probe"
    /\ LET installed == check_markitdown_installed(env)
           error_result == [success |-> FALSE, error |-> NotInstalled,
                            markdown |-> None]
       IN  CASE installed = "True" ->
                  /\ trace' = Append(trace, "probe_true")
                  /\ pc' = "m_convert"
                  /\ UNCHANGED <<stdout, stderr, exit_code>>
             [] installed = "False" ->
                  /\ trace' = Append(trace, "probe_false")
                  /\ IF args.json
                     THEN /\ stdout' = Append(stdout, Json(error_result))
                          /\ UNCHANGED stderr
                     ELSE /\ stderr' = Append(stderr,
                                 Text("Error: " \o error_result.error))
                          /\ UNCHANGED stdout
                  /\ Exit(1)
             [] OTHER ->
                  /\ trace' = Append(trace, "probe_raised")
                  /\ Uncaught(LoadError(env))
                  /\ UNCHANGED stdout
    /\ UNCHANGED <<entry, args, env, call, outfiles, tempdir, temp_path,
                   pending, returns>>

\* "result = convert_file(args.file_path, enable_plugins=args.enable_plugins)"
main_convert ==
    /\ pc = "m_convert"
    /\ LET c == [NoCall EXCEPT !.fn = "convert_file",
                               !.file_path = args.file_path,
                               !.enable_plugins = args.enable_plugins,
                               !.temp_before = tempdir]
           outcome == convert_file(c.file_path, c.enable_plugins, env)
       IN  /\ call' = c
           /\ returns' = Append(returns, LogEntry(c, outcome, tempdir))
           /\ trace' = Append(trace, "convert_file")
           /\ IF outcome.kind = "raise"
              THEN Uncaught(outcome.value.exception)
              ELSE /\ pc' = "m_output"
                   /\ UNCHANGED <<stderr, exit_code>>
    /\ UNCHANGED <<entry, args, env, stdout, outfiles, tempdir, temp_path,
                   pending>>

\* the result main holds after convert_file returned
result == returns[Len(returns)].value

\* "Handle output": the if / elif / else that ends main
main_output ==
    /\ pc = "m_output"
    /\ trace' = Append(trace, "output")
    /\ IF args.json
       THEN /\ stdout' = Append(stdout, Json(result))
            /\ Exit(0)
            /\ UNCHANGED <<stderr, outfiles>>
       ELSE IF result.success
       THEN IF Truthy(args.output)
            THEN IF env.open = "raise"
                 THEN /\ Uncaught("OSError")
                      /\ UNCHANGED <<stdout, outfiles>>
                 ELSE IF result.markdown = None
                 THEN \* open(..., "w") created the file, f.write(None) raises
                      /\ outfiles' = {o \in outfiles : o.path # args.output}
                                       \cup {[path |-> args.output, data |-> ""]}
                      /\ Uncaught("TypeError")
                      /\ UNCHANGED stdout
                 ELSE /\ outfiles' = {o \in outfiles : o.path # args.output}
                                       \cup {[path |-> args.output,
                                              data |-> result.markdown]}
                      /\ stdout' = Append(stdout,
                             Text("Converted successfully: " \o args.output))
                      /\ Exit(0)
                      /\ UNCHANGED stderr
            ELSE /\ stdout' = Append(stdout, Text(Str(result.markdown)))
                 /\ Exit(0)
                 /\ UNCHANGED <<stderr, outfiles>>
       ELSE /\ stderr' = Append(stderr, Text("Error: " \o result.error))
            /\ Exit(1)
            /\ UNCHANGED <<stdout, outfiles>>
    /\ UNCHANGED <<entry, args, env, call, tempdir, temp_path, pending, returns>>

----------------------------------------------------------------------------
(* A caller of convert_file *)

call_convert_file ==
    /\ pc = "cf_call"
    /\ LET outcome == convert_file(call.file_path, call.enable_plugins, env)
       IN  /\ returns' = Append(returns, LogEntry(call, outcome, tempdir))
           /\ pc' = IF outcome.kind = "raise" THEN "raised" ELSE "returned"
    /\ UNCHANGED <<entry, args, env, call, stdout, stderr, exit_code, outfiles,
                   tempdir, temp_path, pending, trace>>

----------------------------------------------------------------------------
(* convert_bytes, statement by statement *)

\* the call is over: the caller gets the outcome
Leave(outcome, after) ==
    /\ returns' = Append(returns, LogEntry(call, outcome, after))
    /\ pc' = IF outcome.kind = "raise" THEN "raised" ELSE "returned"

\* the imports and "if not file_extension.startswith('.')", before the try
cb_enter ==
    /\ pc = "cb_enter"
    /\ IF env.load # "ok"
       THEN /\ Leave(Raised(LoadError(env)), tempdir)
            /\ UNCHANGED call
       ELSE /\ call' = [call EXCEPT !.file_extension = Normalize(call.file_extension)]
            /\ pc' = "cb_mktemp"
            /\ UNCHANGED returns
    /\ UNCHANGED <<entry, args, env, stdout, stderr, exit_code, outfiles,
                   tempdir, temp_path, pending, trace>>

\* a name NamedTemporaryFile has not used yet
FreshId == Cardinality(tempdir) + Len(returns)

\* "with tempfile.NamedTemporaryFile(suffix=file_extension, delete=False) as f:"
cb_mktemp ==
    /\ pc = "cb_mktemp"
    /\ IF env.tmp = "raise"
       THEN /\ pending' = Raised(TmpError)
            /\ pc' = "cb_except"
            /\ UNCHANGED <<tempdir, call>>
       ELSE LET file == [id |-> FreshId, suffix |-> Join(call.file_extension),
                         data |-> ""]
            IN  /\ tempdir' = tempdir \cup {file}
                /\ call' = [call EXCEPT !.f = {file.id}]
                /\ pc' = "cb_write"
                /\ UNCHANGED pending
    /\ UNCHANGED <<entry, args, env, stdout, stderr, exit_code, outfiles,
                   temp_path, returns, trace>>

\* "f.write(content)", "temp_path = f.name", and the with block closing f
cb_write ==
    /\ pc = "cb_write"
    /\ IF env.write = "raise"
       THEN \* the with block closes f; delete=False leaves the file in place
            /\ pending' = Raised(WriteError)
            /\ pc' = "cb_except"
            /\ UNCHANGED <<tempdir, temp_path>>
       ELSE /\ tempdir' = {IF t.id \in call.f
                           THEN [t EXCEPT !.data = call.content] ELSE t
                           : t \in tempdir}
            /\ temp_path' = call.f
            /\ pc' = "cb_convert"
            /\ UNCHANGED pending
    /\ UNCHANGED <<entry, args, env, call, stdout, stderr, exit_code, outfiles,
                   returns, trace>>

\* temp_path as text: the directory and the generated name, then the suffix
TempName(suffix) == "/tmp/tmp" \o suffix

\* the inner try: MarkItDown(...), md.convert(temp_path), the return statement
cb_convert ==
    /\ pc = "cb_convert"
    /\ pending' =
          IF CtorRaises(call.enable_plugins, env) THEN Raised(CtorError)
          ELSE IF ConvertRaises(Join(call.file_extension), env)
               THEN Raised(ConvertError(TempName(Join(call.file_extension))))
          ELSE Returned(BytesSuccess(call.file_extension, env.text))
    /\ pc' = "cb_finally"
    /\ UNCHANGED <<entry, args, env, call, stdout, stderr, exit_code, outfiles,
                   tempdir, temp_path, returns, trace>>

\* "finally: os.unlink(temp_path)"
cb_finally ==
    /\ pc = "cb_finally"
    /\ IF env.unlink = "raise"
       THEN /\ pending' = Raised(UnlinkError)
            /\ pc' = "cb_except"
            /\ UNCHANGED <<tempdir, returns>>
       ELSE /\ tempdir' = {t \in tempdir : t.id \notin temp_path}
            /\ IF pending.kind = "raise"
               THEN /\ pc' = "cb_except"
                    /\ UNCHANGED returns
               ELSE Leave(pending, tempdir')
            /\ UNCHANGED pending
    /\ UNCHANGED <<entry, args, env, call, stdout, stderr, exit_code, outfiles,
                   temp_path, trace>>

\* "except Exception as e:" and its return statement
cb_except ==
    /\ pc = "cb_except"
    /\ pending' = Returned(BytesFailure(call.file_extension, pending.value.exception))
    /\ Leave(pending', tempdir)
    /\ UNCHANGED <<entry, args, env, call, stdout, stderr, exit_code, outfiles,
                   tempdir, temp_path, trace>>

\* the caller repeats the call with the dot put in front of the extension
call_again_dotted ==
    /\ pc = "returned"
    /\ entry = "convert_bytes"
    /\ Len(returns) = 1
    /\ ~StartsWithDot(call.ext_arg)
    /\ call' = [call EXCEPT !.ext_arg = <<".">> \o call.ext_arg,
                            !.file_extension = <<".">> \o call.ext_arg,
                            !.f = {},
                            !.temp_before = tempdir]
    /\ temp_path' = {}
    /\ pc' = "cb_enter"
    /\ UNCHANGED <<entry, args, env, stdout, stderr, exit_code, outfiles,
                   tempdir, pending, returns, trace>>

----------------------------------------------------------------------------

Next ==
    \/ main_check
    \/ main_usage
    \/ main_probe
    \/ main_convert
    \/ main_output
    \/ call_convert_file
    \/ cb_enter
    \/ cb_mktemp
    \/ cb_write
    \/ cb_convert
    \/ cb_finally
    \/ cb_except
    \/ call_again_dotted

Spec == Init /\ [][Next]_vars

----------------------------------------------------------------------------
(* Properties *)

Events == {trace[i] : i \in 1..Len(trace)}

Exited == entry = "main" /\ pc = "exited"

\* main reached convert_file and holds its result
Converted == entry = "main" /\ Len(returns) = 1 /\ returns[1].kind = "return"

FilePathAbsent == ~(args.has_file_path /\ PathStr(args.file_path) # "")

\* C1: a run of main that reached convert_file and got success = false exits
\* with code 1, in plain mode and in --json mode alike, and a run that reached
\* convert_file exits with code 0 only if the conversion succeeded.
C1_FailedConversionExitsOne ==
    (Exited /\ Converted) =>
        /\ ~result.success => exit_code = 1
        /\ exit_code = 0 => result.success

\* C2: when a call of convert_bytes is over, the temp directory holds the
\* files it held before the call, on every exit path.
C2_TempDirUnchanged ==
    \A i \in 1..Len(returns) :
        returns[i].fn = "convert_bytes" =>
            returns[i].temp_after = returns[i].temp_before

\* C3: no exception escapes convert_file or convert_bytes: every call ends
\* by returning a record, and that record has success = false whenever the
\* converter library failed to load.
C3_NoExceptionEscapes ==
    \A i \in 1..Len(returns) :
        /\ returns[i].kind = "return"
        /\ env.load # "ok" => ~returns[i].value.success

\* C4: a returned record with success = true has a markdown and no error; one
\* with success = false has an error text and no markdown.
C4_ResultShape ==
    \A i \in 1..Len(returns) :
        returns[i].kind = "return" =>
            LET r == returns[i].value IN
            /\ r.success => (r.markdown # None /\ r.error = None)
            /\ ~r.success => (r.error # None /\ r.markdown = None)

FailureKeys == {"success", "error", "markdown", "file_path"}
SuccessKeys == FailureKeys \cup {"file_name", "file_extension"}

\* C5: every record main prints on stdout in --json mode has exactly the
\* documented keys: success, error, markdown, file_path, and for a success
\* also file_name and file_extension.
C5_JsonKeys ==
    (entry = "main" /\ args.json /\ ~args.check) =>
        \A i \in 1..Len(stdout) :
            stdout[i].kind = "json" =>
                DOMAIN stdout[i].obj =
                    IF stdout[i].obj.success THEN SuccessKeys ELSE FailureKeys

\* C6 as stated: without --check and without a file path, main exits with
\* code 1 after reporting a usage error.
C6_UsageErrorExitsOne ==
    (Exited /\ ~args.check /\ FilePathAbsent) =>
        /\ exit_code = 1
        /\ stderr = <<Text("error: " \o UsageMessage)>>

\* C6 as amended: without --check and without a file path, main exits with
\* code 2, the status of parser.error, after reporting the usage error on
\* stderr; nothing is printed on stdout and convert_file is not invoked.
C6_UsageErrorExitsTwo ==
    (Exited /\ ~args.check /\ FilePathAbsent) =>
        /\ exit_code = 2
        /\ stderr = <<Text("error: " \o UsageMessage)>>
        /\ stdout = <<>>
        /\ returns = <<>>

C6_Witness ==
    Exited /\ ~args.check /\ FilePathAbsent /\ "usage_error" \in Events

\* C7: when --output <path> is given and the conversion succeeded, main has
\* written the markdown to <path> and has not printed it on stdout, whatever
\* the other flags.  Stated for a path that can be opened for writing and a
\* result that carries a markdown text.
C7_OutputWritten ==
    (Exited /\ Converted /\ Truthy(args.output) /\ env.open = "ok"
        /\ result.success /\ result.markdown # None) =>
        /\ [path |-> args.output, data |-> result.markdown] \in outfiles
        /\ \A i \in 1..Len(stdout) :
              /\ stdout[i].kind = "text" => stdout[i].text # result.markdown
              /\ stdout[i].kind = "json" => stdout[i].obj # result

\* C8: with --check, main ends at the probe: {"installed": true} and exit 0
\* when the dependency loads, otherwise an object with installed = false and
\* an error text and exit 1; convert_file is not invoked and no output file
\* is written.
C8_CheckShortCircuits ==
    (entry = "main" /\ args.check) =>
        /\ pc \in {"m_check", "exited"}
        /\ returns = <<>>
        /\ outfiles = {}
        /\ pc = "exited" =>
              IF env.load = "ok"
              THEN stdout = <<Json([installed |-> TRUE])>> /\ exit_code = 0
              ELSE /\ Len(stdout) = 1
                   /\ stdout[1].kind = "json"
                   /\ DOMAIN stdout[1].obj = {"installed", "error"}
                   /\ ~stdout[1].obj.installed
                   /\ exit_code = 1

C10_GuardsBeforeConvert ==
    entry = "main" =>
        /\ Cardinality({i \in 1..Len(trace) : trace[i] = "convert_file"}) <= 1
        /\ Len(returns) <= 1
        /\ \A i \in 1..Len(trace) :
              trace[i] = "convert_file" =>
                  /\ SubSeq(trace, 1, i - 1) =
                        <<"no_check", "file_path_given", "probe_true">>
                  /\ ~args.check
                  /\ ~FilePathAbsent
                  /\ env.load = "ok"
                  /\ Len(returns) = 1
        /\ "usage_error" \in Events =>
              /\ Events = {"no_check", "usage_error"}
              /\ pc = "exited" /\ exit_code # 0
        /\ (pc = "exited" /\ env.load # "ok") => exit_code # 0
        /\ (pc = "exited" /\ (FilePathAbsent \/ env.load # "ok") /\ ~args.check) =>
              /\ exit_code # 0
              /\ returns = <<>>

C10_Witness ==
    /\ Exited
    /\ trace = <<"no_check", "file_path_given", "probe_true", "convert_file", "output">>
    /\ Len(returns) = 1

====
